---- MODULE Spec2Model ----
(***************************************************************************)
(* Model of the UG63 gateway configuration bot (gateway_config_bot.py):    *)
(* the seven-step workflow GatewayConfigBot.configure_single_gateway, the  *)
(* capabilities it calls (WiFi join, browser session, UI actions, operator *)
(* prompts) and the configuration lookups that guard its steps.            *)
(***************************************************************************)
EXTENDS Integers, Sequences, FiniteSets, TLC

(***************************************************************************)
(* Bounds of the model.                                                    *)
(***************************************************************************)
\* largest retry budget (max_retries) a workflow is started with
MaxRetries == 2
\* invalid entries the operator may type at one pause prompt
MaxInvalid == 1
\* "Cellular" option nodes the device page may render at step 6
MaxElems == 2
\* lines of scan output considered
MaxLines == 3
\* networks a scan may return
MaxNetworks == 2
\* comma-separated parts of a line typed at the selection prompt
MaxParts == 2
\* gateways selected for one fleet run
MaxGateways == 2

(***************************************************************************)
(* Python values.  A YAML value is a tagged record: a mapping             *)
(* ("dict", function from keys to values), a string or None.               *)
(***************************************************************************)
PyNone == [t |-> "none", v |-> ""]
PyStr(s) == [t |-> "str", v |-> s]
PyDict(f) == [t |-> "dict", v |-> f]

\* Python truthiness of a value, as tested by `not x` and `x or y`
Truthy(x) ==
    CASE x.t = "none" -> FALSE
      [] x.t = "str"  -> x.v # ""
      [] x.t = "dict" -> DOMAIN x.v # {}

\* Python `a or b`
PyOr(a, b) == IF Truthy(a) THEN a ELSE b

\* str.split('.') of a dotted key given as its tokens, "." being the separator
RECURSIVE SplitFrom(_, _, _)
SplitFrom(toks, i, cur) ==
    IF i > Len(toks) THEN <<cur>>
    ELSE IF toks[i] = "." THEN <<cur>> \o SplitFrom(toks, i + 1, "")
    ELSE SplitFrom(toks, i + 1, toks[i])

Split(key_path) == SplitFrom(key_path, 1, "")

\* GetFrom, were a missing key to give None whatever the default
RECURSIVE GetFrom_NoneWhenMissing(_, _, _, _)
GetFrom_NoneWhenMissing(value, keys, i, default) ==
    IF i > Len(keys) THEN value
    ELSE IF value.t = "dict" /\ keys[i] \in DOMAIN value.v
         THEN GetFrom_NoneWhenMissing(value.v[keys[i]], keys, i + 1, default)
         ELSE PyNone

\* ConfigLoader.get: follow the keys through nested mappings, default otherwise
RECURSIVE GetFrom(_, _, _, _)
GetFrom(value, keys, i, default) ==
    IF i > Len(keys) THEN value
    ELSE IF value.t = "dict" /\ keys[i] \in DOMAIN value.v
         THEN GetFrom(value.v[keys[i]], keys, i + 1, default)
         ELSE default

Get(cfg, key_path, default) == GetFrom(cfg, Split(key_path), 1, default)

\* the dotted keys the workflow reads
K_new_password == <<"credentials", ".", "new_password">>
K_default_password == <<"credentials", ".", "default_password">>
K_default_username == <<"credentials", ".", "default_username">>
K_new_username == <<"credentials", ".", "new_username">>
K_wifi_password == <<"wifi", ".", "password">>
K_wifi_encryption == <<"wifi", ".", "encryption">>
K_ip_address == <<"web_interface", ".", "ip_address">>
K_protocol == <<"web_interface", ".", "protocol">>
K_cs_address == <<"chirpstack", ".", "server_address">>
K_cs_port == <<"chirpstack", ".", "server_port">>
K_cs_protocol == <<"chirpstack", ".", "protocol">>

(***************************************************************************)
(* Configuration documents the bot may have loaded (yaml.safe_load).       *)
(***************************************************************************)
\* marks a key that a document leaves out of its section
Absent == [t |-> "absent", v |-> ""]

\* a document with the given credentials.new_password and wifi.password
\* entries; Absent leaves the key out of its section
Doc(np, wp) ==
    PyDict([s \in {"credentials", "wifi"} |->
        IF s = "credentials"
        THEN PyDict([k \in {"default_password"} \cup
                            (IF np.t = "absent" THEN {} ELSE {"new_password"}) |->
                        IF k = "default_password" THEN PyStr("password") ELSE np])
        ELSE PyDict([k \in {"encryption"} \cup
                            (IF wp.t = "absent" THEN {} ELSE {"password"}) |->
                        IF k = "encryption" THEN PyStr("WPA2-PSK") ELSE wp])])

ConfigDocs ==
    { Doc(PyStr("s3cret"), PyStr("w1f1")),
      Doc(PyStr("s3cret"), Absent),
      Doc(PyStr("s3cret"), PyStr("")),
      Doc(Absent, PyStr("w1f1")),
      Doc(PyNone, PyNone),
      PyNone }

(***************************************************************************)
(* The UI calls of the step actions.  A call is the operation, its         *)
(* selector and the value passed; `inner` marks a call made inside the     *)
(* per-element try of configure_network, on the option node at `idx`.      *)
(***************************************************************************)
Call(op, sel, val) == [op |-> op, sel |-> sel, val |-> val, idx |-> 0, inner |-> FALSE]

\* the text a Python value puts into a selector or a field
Text(x) == IF x.t = "str" THEN x.v ELSE "None"

\* login_to_gateway, were it to log in with the new password once one is configured
login_to_gateway_UsesNewPassword(cfg, username, password) ==
    LET user == PyOr(username, Get(cfg, K_default_username, PyStr("admin")))
        pass == PyOr(Get(cfg, K_new_password, PyNone), password)
        gateway_ip == Get(cfg, K_ip_address, PyStr("192.168.1.1"))
        protocol == Get(cfg, K_protocol, PyStr("http"))
    IN [pre |-> TRUE, ok |-> TRUE,
        calls |-> << Call("goto", Text(protocol), Text(gateway_ip)),
                     Call("wait_for_selector", "#username", ""),
                     Call("fill", "#username", Text(user)),
                     Call("fill", "#password", Text(pass)),
                     Call("click", "Login", "") >>]

\* login_to_gateway(username="admin", password="password")
login_to_gateway(cfg, username, password) ==
    LET user == PyOr(username, Get(cfg, K_default_username, PyStr("admin")))
        pass == PyOr(password, Get(cfg, K_default_password, PyStr("password")))
        gateway_ip == Get(cfg, K_ip_address, PyStr("192.168.1.1"))
        protocol == Get(cfg, K_protocol, PyStr("http"))
    IN [pre |-> TRUE, ok |-> TRUE,
        calls |-> << Call("goto", Text(protocol), Text(gateway_ip)),
                     Call("wait_for_selector", "#username", ""),
                     Call("fill", "#username", Text(user)),
                     Call("fill", "#password", Text(pass)),
                     Call("click", "Login", "") >>]

\* configure_chirpstack()
configure_chirpstack(cfg) ==
    LET server_address == Get(cfg, K_cs_address, PyStr("192.168.1.1"))
        server_port == Get(cfg, K_cs_port, PyStr("1884"))
        protocol == Get(cfg, K_cs_protocol, PyStr("ChirpStack-v4"))
    IN [pre |-> TRUE, ok |-> TRUE,
        calls |-> << Call("click", "packet", ""),
                     Call("click", "Embedded NS", ""),
                     Call("click", "protocol", Text(protocol)),
                     Call("fill", "#cs4_address", Text(server_address)),
                     Call("fill", "cs4_port", Text(server_port)),
                     Call("click", "Save & Apply", "") >>]

\* change_password(old_password="password", new_password="password")
change_password(cfg, old_password, new_password) ==
    LET old == PyOr(old_password, Get(cfg, K_default_password, PyStr("password")))
        new == PyOr(new_password, Get(cfg, K_new_password, PyNone))
    IN [pre |-> Truthy(new), ok |-> TRUE,
        calls |-> << Call("click", "system", ""),
                     Call("click", "User", ""),
                     Call("fill", "#old_pwd", Text(old)),
                     Call("fill", "#new_pwd", Text(new)),
                     Call("fill", "#check_pwd", Text(new)),
                     Call("click", "Save & Apply", "") >>]

\* relogin_with_new_password(username="admin", password="password")
relogin_with_new_password(cfg, username, password) ==
    LET user == PyOr(username, Get(cfg, K_new_username, PyStr("admin")))
        pass == PyOr(password, Get(cfg, K_new_password, PyNone))
    IN [pre |-> Truthy(pass), ok |-> TRUE,
        calls |-> << Call("fill", "#username", Text(user)),
                     Call("fill", "#password", Text(pass)),
                     Call("click", "Login", "") >>]

\* An option node matching "Cellular": is_visible(), its aria-selected
\* attribute, and whether clicking it raises.
Elems == [visible : BOOLEAN, selected : {"true", "false"}, raises : BOOLEAN]

\* the lists of at most n option nodes
RECURSIVE ElemLists(_)
ElemLists(n) ==
    IF n = 0 THEN {<<>>}
    ELSE ElemLists(n - 1) \cup
         { Append(l, e) : l \in { x \in ElemLists(n - 1) : Len(x) = n - 1 }, e \in Elems }

\* ScanFrom, were an option clicked whether visible or not
RECURSIVE ScanFrom_IgnoresVisibility(_, _)
ScanFrom_IgnoresVisibility(elems, i) ==
    IF i > Len(elems) THEN [clicks |-> <<>>, clicked |-> FALSE]
    ELSE IF elems[i].selected = "false"
         THEN LET c == [op |-> "click", sel |-> "Cellular", val |-> "", idx |-> i, inner |-> TRUE]
              IN IF elems[i].raises
                 THEN LET rest == ScanFrom_IgnoresVisibility(elems, i + 1)
                      IN [clicks |-> <<c>> \o rest.clicks, clicked |-> rest.clicked]
                 ELSE [clicks |-> <<c>>, clicked |-> TRUE]
         ELSE ScanFrom_IgnoresVisibility(elems, i + 1)

\* the loop over cellular_elements: the clicks it attempts, and `clicked`
RECURSIVE ScanFrom(_, _)
ScanFrom(elems, i) ==
    IF i > Len(elems) THEN [clicks |-> <<>>, clicked |-> FALSE]
    ELSE IF elems[i].visible /\ elems[i].selected = "false"
         THEN LET c == [op |-> "click", sel |-> "Cellular", val |-> "", idx |-> i, inner |-> TRUE]
              IN IF elems[i].raises
                 THEN LET rest == ScanFrom(elems, i + 1)
                      IN [clicks |-> <<c>> \o rest.clicks, clicked |-> rest.clicked]
                 ELSE [clicks |-> <<c>>, clicked |-> TRUE]
         ELSE ScanFrom(elems, i + 1)

\* configure_network()
configure_network(elems) ==
    LET scan == ScanFrom(elems, 1)
    IN [pre |-> TRUE, ok |-> scan.clicked,
        calls |-> << Call("click", "network", ""),
                     Call("click", ".ui-select-button", ""),
                     Call("locator.all", "Cellular", "") >>
                  \o scan.clicks
                  \o (IF scan.clicked THEN << Call("click", "Save & Apply", "") >>
                      ELSE <<>>)]

\* configure_wifi_password(wifi_password="password")
configure_wifi_password(cfg, wifi_password) ==
    LET pw == PyOr(wifi_password, Get(cfg, K_wifi_password, PyNone))
        encryption == Get(cfg, K_wifi_encryption, PyStr("WPA-PSK"))
    IN [pre |-> Truthy(pw), ok |-> TRUE,
        calls |-> << Call("click", "WLAN", ""),
                     Call("click", "No Encryption", ""),
                     Call("click", "encryption", Text(encryption)),
                     Call("fill", "#ap_pwd", Text(pw)),
                     Call("click", "Save & Apply", "") >>]

(***************************************************************************)
(* State of one run of configure_single_gateway(ssid, max_retries,         *)
(* start_from_step) on a GatewayConfigBot.                                 *)
(***************************************************************************)
VARIABLES
    start_from_step,   \* argument: the step the workflow resumes from
    max_retries,       \* argument: the retry budget
    interactive_mode,  \* self.interactive_mode
    config,            \* self.config.config, the loaded document
    headless,          \* main's flag --headless
    attempt,           \* the loop variable of `for attempt in range(...)`
    pc,                \* where the workflow stands
    currentStep,       \* the step (1..7) whose block runs; 0 before the first
    action,            \* the disposition pause_for_manual_work returned
    invalid,           \* invalid entries typed at the current prompt
    browser,           \* self.browser: NoHandle or the handle launched
    page,              \* self.page: NoHandle or the page of that browser
    result,            \* how the call ended: "True", "False" or the error raised
    live,              \* handles of the browsers that are really open
    playwrights,       \* playwright drivers started and not stopped
    closeRaised,       \* some browser.close() of this bot has raised
    device_password,   \* the admin password of the gateway being configured, if any
    hidden,            \* handles of the open browsers that were launched headless
    executions,        \* attempt executions begun so far
    lowestInvoked,     \* lowest step whose action has been invoked so far
    completed,         \* steps completed in the current attempt
    ui                 \* the step action that ran since the last prompt, and its UI calls

\* State of main.run_bot around the workflow, of WiFiManager's scan, of
\* select_gateways and of a call of ConfigLoader.get.
VARIABLES
    runPc,             \* where run_bot, the scan, the selection or the lookup stands
    system,            \* WiFiManager.system: platform.system()
    stdout,            \* result.stdout of the scan command, as its lines
    networks,          \* the networks the scan returned
    selection,         \* the line the operator typed last at the "> " prompt
    selected_gateways, \* the ssids select_gateways returned
    gateway,           \* the loop variable i of the fleet loop; 0 before it
    success_count,     \* success_count of run_bot
    continue_choice,   \* the answer given after the current gateway failed
    outcomes,          \* what each workflow of the fleet loop returned, in order
    tally,             \* the summary printed: succeeded and the total shown
    key_path,          \* get's argument key_path, as its tokens
    default,           \* get's argument default
    value,             \* what get returned
    cellular_elements  \* the "Cellular" option nodes on the page at step 6

\* the state of the fleet loop
fleet == << gateway, success_count, continue_choice, outcomes, tally >>

\* the state of the calls modelled on their own: get and configure_network
aside == << key_path, default, value, cellular_elements >>

\* the state outside one workflow, which the workflow leaves alone
outside == << runPc, system, stdout, networks, selection, selected_gateways,
              fleet, aside >>

vars == << start_from_step, max_retries, interactive_mode, config, headless,
           attempt, pc, currentStep, action, invalid, browser, page, result, live,
           playwrights, closeRaised, hidden, device_password, executions, lowestInvoked, completed, ui,
           outside >>

\* the arguments and the bot's fields that the workflow only reads, and
\* main's flag, which it never sees
inputs == << start_from_step, max_retries, interactive_mode, config, headless >>

NoHandle == 0
NoAction == "none"
Steps == 1..7
\* lowestInvoked while no step action has been invoked
NoneInvoked == 7 + 1

Min(a, b) == IF a <= b THEN a ELSE b

\* the UI calls `calls` made by the action of step i
Calls(i, calls) == [step |-> i, calls |-> calls]
\* ui while no step action has run since the operator was last asked
NoCalls == Calls(0, <<>>)

\* the admin password of a gateway not yet configured: the one the bot logs
\* in with
FactoryPassword == "password"

\* GatewayConfigBot.__init__: no browser, no page, nothing opened yet
NewBot ==
    /\ browser = NoHandle
    /\ page = NoHandle
    /\ live = {}
    /\ playwrights = 0
    /\ closeRaised = FALSE
    /\ hidden = {}
    /\ executions = 0

\* selection while nothing has been typed
NoLine == [kw |-> "none", toks |-> <<>>]
\* tally while no summary has been printed
NoTally == [succeeded |-> 0, total |-> 0, printed |-> FALSE]
\* value while get has not been called
NotCalled == [t |-> "notcalled", v |-> ""]

\* no scan has run and nothing has been selected
NoScan ==
    /\ system = ""
    /\ stdout = <<>>
    /\ networks = <<>>
    /\ selection = NoLine
    /\ selected_gateways = <<>>

\* the fleet loop has not begun
NoFleet ==
    /\ gateway = 0
    /\ success_count = 0
    /\ continue_choice = ""
    /\ outcomes = <<>>
    /\ tally = NoTally

\* neither get nor configure_network has been called on its own
NoLookup ==
    /\ key_path = <<>>
    /\ default = PyNone
    /\ value = NotCalled
    /\ cellular_elements = <<>>

\* no workflow is being run
NoWorkflow ==
    /\ start_from_step = 1
    /\ max_retries = 0
    /\ interactive_mode = FALSE
    /\ headless = FALSE
    /\ attempt = 0
    /\ pc = "none"
    /\ currentStep = 0
    /\ action = NoAction
    /\ invalid = 0
    /\ result = "none"
    /\ device_password = FactoryPassword
    /\ lowestInvoked = NoneInvoked
    /\ completed = {}
    /\ ui = NoCalls

\* one call of configure_single_gateway on a new bot
Init ==
    /\ start_from_step \in Steps
    /\ max_retries \in 0..MaxRetries
    /\ interactive_mode \in BOOLEAN
    /\ config \in ConfigDocs
    /\ headless = FALSE
    /\ attempt = 0
    /\ pc = "for"
    /\ currentStep = 0
    /\ action = NoAction
    /\ invalid = 0
    /\ result = "running"
    /\ device_password = FactoryPassword
    /\ lowestInvoked = NoneInvoked
    /\ completed = {}
    /\ ui = NoCalls
    /\ NewBot
    /\ runPc = "workflow"
    /\ NoScan
    /\ NoFleet
    /\ NoLookup

(***************************************************************************)
(* Browser session: initialize_browser and close_browser.                  *)
(***************************************************************************)
\* how far initialize_browser gets: each of its three calls may raise
InitOutcomes == {"start_raises", "launch_raises", "new_page_raises", "opened"}

\* the bot's session fields and the resources behind them
Session == [browser |-> browser, page |-> page, live |-> live,
            playwrights |-> playwrights, closeRaised |-> closeRaised,
            hidden |-> hidden]

SetSession(s) ==
    /\ browser' = s.browser
    /\ page' = s.page
    /\ live' = s.live
    /\ playwrights' = s.playwrights
    /\ closeRaised' = s.closeRaised
    /\ hidden' = s.hidden

session == << browser, page, live, playwrights, closeRaised, hidden >>

\* the handle of a browser launched now: the least one no open browser has
NewHandle ==
    CHOOSE h \in 1..(Cardinality(live) + 1) :
        h \notin live /\ \A k \in 1..(h - 1) : k \in live

\* the headless argument of playwright.chromium.launch
LaunchHeadless == FALSE

\* initialize_browser(): start a playwright driver, launch a browser, open a
\* page; h names the browser launched
initialize_browser(s, h, o) ==
    [s EXCEPT
       !.playwrights = IF o = "start_raises" THEN @ ELSE @ + 1,
       !.browser = IF o \in {"new_page_raises", "opened"} THEN h ELSE @,
       !.live = IF o \in {"new_page_raises", "opened"} THEN @ \cup {h} ELSE @,
       !.hidden = IF o \in {"new_page_raises", "opened"} /\ LaunchHeadless
                  THEN @ \cup {h} ELSE @,
       !.page = IF o = "opened" THEN h ELSE @]

\* what browser.close() does: it closes the browser, or raises and leaves it open
CloseOutcomes == {"closed", "raises"}

\* close_browser, were it to forget the browser without closing it
close_browser_ForgetsBrowser(s, o) ==
    [s EXCEPT !.browser = NoHandle, !.page = NoHandle]

\* close_browser(): close self.browser if set; an error of close() is swallowed
close_browser(s, o) ==
    IF s.browser # NoHandle
    THEN IF o = "closed"
         THEN [s EXCEPT !.browser = NoHandle, !.page = NoHandle,
                        !.live = @ \ {s.browser}, !.hidden = @ \ {s.browser}]
         ELSE [s EXCEPT !.closeRaised = TRUE]
    ELSE s

(***************************************************************************)
(* Control flow of configure_single_gateway.                               *)
(***************************************************************************)
\* After, were the resume point ignored: every attempt begins at step 1
After_IgnoresStartStep(i) ==
    CASE i = 0 -> [pc |-> "pause", step |-> 1]
      [] i = 1 -> [pc |-> "init", step |-> 2]
      [] i = 3 -> [pc |-> "check", step |-> 4]
      [] i = 7 -> [pc |-> "close", step |-> 7]
      [] OTHER -> [pc |-> "pause", step |-> i + 1]

\* where the workflow stands after leaving step i (0: the attempt begins):
\* the `if start_from_step <= k` tests of the following blocks
RECURSIVE After(_)
After(i) ==
    CASE i = 0 -> IF start_from_step <= 1 THEN [pc |-> "pause", step |-> 1] ELSE After(1)
      [] i = 1 -> IF start_from_step <= 2 THEN [pc |-> "init", step |-> 2] ELSE After(2)
      [] i = 3 -> IF start_from_step <= 4 THEN [pc |-> "check", step |-> 4] ELSE After(4)
      [] i = 7 -> [pc |-> "close", step |-> 7]
      [] OTHER -> IF start_from_step <= i + 1 THEN [pc |-> "pause", step |-> i + 1]
                  ELSE After(i + 1)

GoTo(at) ==
    /\ pc' = at.pc
    /\ currentStep' = at.step
    /\ action' = NoAction
    /\ invalid' = 0

\* `return r`, or the error r propagating out of the call
Return(r) ==
    /\ pc' = "done"
    /\ result' = r
    /\ UNCHANGED << attempt, currentStep >>
    /\ action' = NoAction
    /\ invalid' = 0

\* RetryOrFail, were the budget test off by one
RetryOrFail_OffByOne ==
    IF attempt + 1 < max_retries
    THEN /\ attempt' = attempt + 1
         /\ pc' = "for"
         /\ action' = NoAction
         /\ invalid' = 0
         /\ UNCHANGED << result, currentStep >>
    ELSE Return("False")

\* RetryOrFail, were a retry not to use up the budget
RetryOrFail_Uncounted ==
    /\ attempt' = attempt
    /\ pc' = "for"
    /\ action' = NoAction
    /\ invalid' = 0
    /\ UNCHANGED << result, currentStep >>

\* `if attempt < max_retries: continue` then `return False`
RetryOrFail ==
    IF attempt < max_retries
    THEN /\ attempt' = attempt + 1
         /\ pc' = "for"
         /\ action' = NoAction
         /\ invalid' = 0
         /\ UNCHANGED << result, currentStep >>
    ELSE Return("False")

\* BeginAttempt, were a retry to resume at the step that failed
BeginAttempt_ResumesAtFailedStep ==
    /\ pc = "for"
    /\ executions' = executions + 1
    /\ completed' = {}
    /\ GoTo(IF currentStep = 0 THEN After(0) ELSE [pc |-> "pause", step |-> currentStep])
    /\ UNCHANGED << outside, device_password, attempt, result, inputs, session, lowestInvoked, ui >>

\* `for attempt in range(max_retries + 1)`: the head of the loop body, where
\* a retry sleeps 5 s first; `return False` once the range is exhausted
BeginAttempt ==
    /\ pc = "for"
    /\ IF attempt < max_retries + 1
       THEN /\ executions' = executions + 1
            /\ completed' = {}
            /\ GoTo(After(0))
            /\ UNCHANGED << attempt, result >>
       ELSE /\ Return("False")
            /\ UNCHANGED << executions, completed >>
    /\ UNCHANGED << outside, device_password, inputs, session, lowestInvoked, ui >>

\* `if start_from_step <= 2: await self.initialize_browser()`
InitializeBrowser ==
    /\ pc = "init"
    /\ SetSession(initialize_browser(Session, NewHandle, "opened"))
    /\ GoTo([pc |-> "pause", step |-> 2])
    /\ UNCHANGED << outside, device_password, inputs, attempt, result, executions, lowestInvoked, completed, ui >>

\* CheckNewPassword, were the secret not tested before the prompt
CheckNewPassword_Unchecked ==
    /\ pc = "check"
    /\ GoTo([pc |-> "pause", step |-> 4])
    /\ UNCHANGED << outside, device_password, inputs, attempt, result, session, executions, lowestInvoked,
                    completed, ui >>

\* step 4 reads credentials.new_password before it prompts
CheckNewPassword ==
    /\ pc = "check"
    /\ LET new_password == Get(config, K_new_password, PyNone)
       IN IF ~Truthy(new_password)
          THEN /\ \E o \in CloseOutcomes : SetSession(close_browser(Session, o))
               /\ Return("False")
          ELSE /\ GoTo([pc |-> "pause", step |-> 4])
               /\ UNCHANGED << attempt, result, session >>
    /\ UNCHANGED << outside, device_password, inputs, executions, lowestInvoked, completed, ui >>

(***************************************************************************)
(* pause_for_manual_work: the operator's disposition for the step.         *)
(***************************************************************************)
\* what the operator may type, after strip().lower()
Choices == {"c", "continue", "p", "pause", "s", "skip", "q", "quit", "", "x"}

\* the value the prompt loop returns for a choice; NoAction: asked again
Disposition(choice) ==
    CASE choice \in {"c", "continue"} -> "continue"
      [] choice \in {"p", "pause"}    -> "manual_done"
      [] choice \in {"s", "skip"}     -> "skip"
      [] choice \in {"q", "quit"}     -> "quit"
      [] OTHER                        -> NoAction

\* pause_for_manual_work, up to the value it returns or the Enter it waits for
Pause ==
    /\ pc = "pause"
    /\ ui' = NoCalls
    /\ IF ~interactive_mode
       THEN /\ action' = "continue"
            /\ pc' = "dispatch"
            /\ UNCHANGED invalid
       ELSE \E choice \in Choices :
              LET d == Disposition(choice)
              IN CASE d = NoAction ->
                        /\ invalid < MaxInvalid
                        /\ invalid' = invalid + 1
                        /\ UNCHANGED << pc, action >>
                   [] d = "manual_done" ->
                        /\ pc' = "ack"
                        /\ UNCHANGED << action, invalid >>
                   [] OTHER ->
                        /\ action' = d
                        /\ pc' = "dispatch"
                        /\ UNCHANGED invalid
    /\ UNCHANGED << outside, device_password, inputs, attempt, currentStep, result, session, executions,
                    lowestInvoked, completed >>

\* the operator presses Enter after doing the step by hand
Acknowledge ==
    /\ pc = "ack"
    /\ action' = "manual_done"
    /\ pc' = "dispatch"
    /\ UNCHANGED << outside, device_password, inputs, attempt, currentStep, invalid, result, session,
                    executions, lowestInvoked, completed, ui >>

(***************************************************************************)
(* The step blocks: quit, skip / manual_done, continue.                    *)
(***************************************************************************)
\* Quit, were a quit handled like a failed step
Quit_Retries ==
    /\ pc = "dispatch"
    /\ action = "quit"
    /\ IF currentStep >= 2
       THEN \E o \in CloseOutcomes : SetSession(close_browser(Session, o))
       ELSE UNCHANGED session
    /\ RetryOrFail
    /\ UNCHANGED << outside, device_password, inputs, executions, lowestInvoked, completed, ui >>

\* `if action == "quit"`: steps 2..7 close the browser first
Quit ==
    /\ pc = "dispatch"
    /\ action = "quit"
    /\ IF currentStep >= 2
       THEN \E o \in CloseOutcomes : SetSession(close_browser(Session, o))
       ELSE UNCHANGED session
    /\ Return("False")
    /\ UNCHANGED << outside, device_password, inputs, executions, lowestInvoked, completed, ui >>

\* Skip, were the step's action invoked all the same
Skip_InvokesAction ==
    /\ pc = "dispatch"
    /\ action \in {"skip", "manual_done"}
    /\ completed' = completed \cup {currentStep}
    /\ lowestInvoked' = Min(lowestInvoked, currentStep)
    /\ GoTo(After(currentStep))
    /\ UNCHANGED << outside, device_password, inputs, attempt, result, session, executions, ui >>

\* the passwords the gateway may hold once the operator has dealt with step i:
\* at "manual_done" on step 4 they have set the password the prompt announced
\* (credentials.new_password), or have left the old one
ByHand(i, disposition) ==
    IF i = 4 /\ disposition = "manual_done"
    THEN {device_password, Text(Get(config, K_new_password, PyNone))}
    ELSE {device_password}

\* "skip" and "manual_done" fall through to the next block
Skip ==
    /\ pc = "dispatch"
    /\ action \in {"skip", "manual_done"}
    /\ completed' = completed \cup {currentStep}
    /\ device_password' \in ByHand(currentStep, action)
    /\ GoTo(After(currentStep))
    /\ UNCHANGED << outside, inputs, attempt, result, session, executions, lowestInvoked, ui >>

\* what configure_network may do, over the option nodes the page may render
NetworkRuns == { configure_network(elems) : elems \in ElemLists(MaxElems) }

\* the action function each step calls, with the arguments the workflow passes
\* (none: the parameters take their defaults), as the set of what it may do
StepAction(i) ==
    CASE i = 2 -> { login_to_gateway(config, PyStr("admin"), PyStr("password")) }
      [] i = 3 -> { configure_chirpstack(config) }
      [] i = 4 -> { change_password(config, PyStr("password"), PyStr("password")) }
      [] i = 5 -> { relogin_with_new_password(config, PyStr("admin"), PyStr("password")) }
      [] i = 6 -> NetworkRuns
      [] i = 7 -> { configure_wifi_password(config, PyStr("password")) }

\* the runs of the UI action a on the page: the UI calls made and the
\* boolean returned.  It fails at once without its secret or without a page, and otherwise
\* goes through its calls, or fails at the first call that raises.
RunsOf(a) ==
    IF ~a.pre \/ page = NoHandle
    THEN { [ui |-> <<>>, ret |-> FALSE] }
    ELSE { [ui |-> a.calls, ret |-> a.ok] } \cup
         { [ui |-> SubSeq(a.calls, 1, f), ret |-> FALSE] :
             f \in { k \in 1..Len(a.calls) : ~a.calls[k].inner } }

\* the runs of a step action: the UI calls made and the boolean returned.
\* Step 1 joins the network; a UI step fails at once without its secret or
\* without a page, and otherwise at the first call that raises.
Runs(i) ==
    IF i = 1 THEN { [ui |-> <<>>, ret |-> r] : r \in BOOLEAN }
    ELSE UNION { RunsOf(a) : a \in StepAction(i) }

\* the value the UI calls `calls` filled into the field sel
Filled(calls, sel) ==
    LET at == { k \in 1..Len(calls) : calls[k].op = "fill" /\ calls[k].sel = sel }
    IN calls[CHOOSE k \in at : TRUE].val

\* the password the gateway holds after the action of step i made the UI
\* calls `calls` and returned True: step 4 has saved the one filled into #new_pwd
Applied(i, calls) ==
    IF i = 4 THEN Filled(calls, "#new_pwd") ELSE device_password

\* action == "continue" and the step's action returns True
StepSucceeds ==
    /\ pc = "dispatch"
    /\ action = "continue"
    /\ \E run \in Runs(currentStep) :
         /\ run.ret
         /\ ui' = Calls(currentStep, run.ui)
         /\ device_password' = Applied(currentStep, run.ui)
    /\ lowestInvoked' = Min(lowestInvoked, currentStep)
    /\ completed' = completed \cup {currentStep}
    /\ GoTo(After(currentStep))
    /\ UNCHANGED << outside, inputs, attempt, result, session, executions >>

\* StepFails, were a failed action to fall through to the next block
StepFails_FallsThrough ==
    /\ pc = "dispatch"
    /\ action = "continue"
    /\ \E run \in Runs(currentStep) :
         /\ ~run.ret
         /\ ui' = Calls(currentStep, run.ui)
    /\ lowestInvoked' = Min(lowestInvoked, currentStep)
    /\ GoTo(After(currentStep))
    /\ UNCHANGED << outside, device_password, inputs, attempt, result, session, executions, completed >>

\* action == "continue" and the step's action returns False
StepFails ==
    /\ pc = "dispatch"
    /\ action = "continue"
    /\ \E run \in Runs(currentStep) :
         /\ ~run.ret
         /\ ui' = Calls(currentStep, run.ui)
    /\ lowestInvoked' = Min(lowestInvoked, currentStep)
    /\ IF currentStep >= 2
       THEN \E o \in CloseOutcomes : SetSession(close_browser(Session, o))
       ELSE UNCHANGED session
    /\ RetryOrFail
    /\ UNCHANGED << outside, device_password, inputs, executions, completed >>

\* after step 7: close the browser and return True
Finish ==
    /\ pc = "close"
    /\ \E o \in CloseOutcomes : SetSession(close_browser(Session, o))
    /\ Return("True")
    /\ UNCHANGED << outside, device_password, inputs, executions, lowestInvoked, completed, ui >>

(***************************************************************************)
(* Errors raised inside the try of configure_single_gateway.               *)
(***************************************************************************)
\* the UI calls a step action has made when an interrupt reaches it
Prefixes(i) ==
    IF i = 1 \/ page = NoHandle THEN {<<>>}
    ELSE UNION { IF ~a.pre THEN {<<>>}
                 ELSE { SubSeq(a.calls, 1, n) : n \in 0..Len(a.calls) }
                 : a \in StepAction(i) }

\* `except Exception`: initialize_browser or input() raised.  The browser is
\* closed and the attempt retried while the budget lasts.
ExceptionRaised ==
    /\ \E o \in CloseOutcomes :
         IF pc = "init"
         THEN \E i \in InitOutcomes \ {"opened"} :
                SetSession(close_browser(initialize_browser(Session, NewHandle, i), o))
         ELSE /\ pc \in {"pause", "ack"}
              /\ interactive_mode
              /\ SetSession(close_browser(Session, o))
    /\ RetryOrFail
    /\ UNCHANGED << outside, device_password, inputs, executions, lowestInvoked, completed, ui >>

\* `except KeyboardInterrupt`: the operator's interrupt is raised in the
\* workflow's own code (a sleep before a retry, the browser start, a prompt,
\* a step action); the browser is closed and the interrupt re-raised.
KeyboardInterrupt ==
    /\ \E o \in CloseOutcomes :
         CASE pc = "for" ->
                /\ attempt > 0
                /\ SetSession(close_browser(Session, o))
                /\ executions' = executions + 1
                /\ UNCHANGED << lowestInvoked, ui >>
           [] pc = "init" ->
                /\ \E i \in InitOutcomes \ {"opened"} :
                     SetSession(close_browser(initialize_browser(Session, NewHandle, i), o))
                /\ UNCHANGED << executions, lowestInvoked, ui >>
           [] pc \in {"pause", "ack"} ->
                /\ interactive_mode
                /\ SetSession(close_browser(Session, o))
                /\ UNCHANGED << executions, lowestInvoked, ui >>
           [] pc = "dispatch" ->
                /\ action = "continue"
                /\ SetSession(close_browser(Session, o))
                /\ lowestInvoked' = Min(lowestInvoked, currentStep)
                /\ \E made \in Prefixes(currentStep) : ui' = Calls(currentStep, made)
                /\ UNCHANGED executions
           [] OTHER -> FALSE
    /\ Return("KeyboardInterrupt")
    /\ UNCHANGED << outside, device_password, inputs, completed >>

\* The event loop turns an interrupt that arrives while the workflow awaits
\* (a sleep, the browser start, a step action) into a cancellation of the
\* task: CancelledError is no Exception and no KeyboardInterrupt, so neither
\* handler runs and it leaves the workflow as it is.
Cancelled ==
    /\ CASE pc = "for" ->
              /\ attempt > 0
              /\ executions' = executions + 1
              /\ UNCHANGED << session, lowestInvoked, ui >>
         [] pc = "init" ->
              /\ \E i \in InitOutcomes \ {"opened"} :
                   SetSession(initialize_browser(Session, NewHandle, i))
              /\ UNCHANGED << executions, lowestInvoked, ui >>
         [] pc = "dispatch" ->
              /\ action = "continue"
              /\ lowestInvoked' = Min(lowestInvoked, currentStep)
              /\ \E made \in Prefixes(currentStep) : ui' = Calls(currentStep, made)
              /\ UNCHANGED << session, executions >>
         [] OTHER -> FALSE
    /\ Return("CancelledError")
    /\ UNCHANGED << outside, device_password, inputs, completed >>

Next ==
    \/ BeginAttempt
    \/ InitializeBrowser
    \/ CheckNewPassword
    \/ Pause
    \/ Acknowledge
    \/ Quit
    \/ Skip
    \/ StepSucceeds
    \/ StepFails
    \/ Finish
    \/ ExceptionRaised
    \/ KeyboardInterrupt
    \/ Cancelled

Spec == Init /\ [][Next]_vars

(***************************************************************************)
(* Texts.  A text (a line of command output, an ssid, a security label) is *)
(* the sequence of its tokens; " " is white space, ":" and "\"" stand for  *)
(* themselves.                                                             *)
(***************************************************************************)
\* `tok in text`
Contains(text, tok) == \E i \in 1..Len(text) : text[i] = tok

\* where pat first occurs in text at or after position from; 0 if nowhere
IndexOf(text, pat, from) ==
    LET at == { i \in from..(Len(text) - Len(pat) + 1) :
                  SubSeq(text, i, i + Len(pat) - 1) = pat }
    IN IF at = {} THEN 0 ELSE CHOOSE i \in at : \A j \in at : i <= j

\* `pat in text`
ContainsSeq(text, pat) == IndexOf(text, pat, 1) # 0

\* text.startswith(tok) and text.endswith(tok)
StartsWith(text, tok) == Len(text) > 0 /\ text[1] = tok
EndsWith(text, tok) == Len(text) > 0 /\ text[Len(text)] = tok

\* text.strip()
RECURSIVE Strip(_)
Strip(text) ==
    IF text = <<>> THEN <<>>
    ELSE IF text[1] = " " THEN Strip(Tail(text))
    ELSE IF text[Len(text)] = " " THEN Strip(SubSeq(text, 1, Len(text) - 1))
    ELSE text

\* text.split(sep)[1], for a text that holds sep
Field1(text, sep) ==
    LET a == IndexOf(text, <<sep>>, 1)
        b == IndexOf(text, <<sep>>, a + 1)
    IN SubSeq(text, a + 1, IF b = 0 THEN Len(text) ELSE b - 1)

\* text.split(pat, 1)[1], for a text that holds pat
AfterFirst(text, pat) ==
    SubSeq(text, IndexOf(text, pat, 1) + Len(pat), Len(text))

(***************************************************************************)
(* WiFiManager.scan_gateway_networks and its parsers.                      *)
(***************************************************************************)
Unknown == <<"Unknown">>
Network(ssid, security) == [ssid |-> ssid, signal |-> Unknown, security |-> security]
\* current_network while it is None
NoNetwork == [ssid |-> <<>>, signal |-> <<>>, security |-> <<>>]

\* the loop over the lines of system_profiler's output (macOS)
RECURSIVE DarwinFrom(_, _, _, _, _)
DarwinFrom(lines, i, in_networks_section, current_network, nets) ==
    IF i > Len(lines)
    THEN IF current_network # NoNetwork
         THEN Append(nets, [current_network EXCEPT !.security = Unknown])
         ELSE nets
    ELSE LET line == lines[i]
             line_stripped == Strip(line)
         IN IF ContainsSeq(line, <<"Other Local Wi-Fi Networks", ":">>)
            THEN DarwinFrom(lines, i + 1, TRUE, current_network, nets)
            ELSE IF ~in_networks_section
            THEN DarwinFrom(lines, i + 1, in_networks_section, current_network, nets)
            ELSE IF EndsWith(line_stripped, ":") /\ Contains(line_stripped, "Gateway_")
            THEN DarwinFrom(lines, i + 1, in_networks_section,
                            Network(SubSeq(line_stripped, 1, Len(line_stripped) - 1), Unknown),
                            IF current_network # NoNetwork
                            THEN Append(nets, [current_network EXCEPT !.security = Unknown])
                            ELSE nets)
            ELSE IF current_network # NoNetwork /\ ContainsSeq(line, <<"Security", ":">>)
            THEN DarwinFrom(lines, i + 1, in_networks_section, NoNetwork,
                            Append(nets, [current_network EXCEPT
                                            !.security = Strip(AfterFirst(line, <<"Security", ":">>))]))
            ELSE DarwinFrom(lines, i + 1, in_networks_section, current_network, nets)

\* _parse_iwlist_output (Linux)
RECURSIVE parse_iwlist_output(_, _)
parse_iwlist_output(lines, i) ==
    IF i > Len(lines) THEN <<>>
    ELSE LET line == Strip(lines[i])
         IN IF ContainsSeq(line, <<"ESSID", ":">>) /\ Contains(line, "Gateway_")
            THEN << Network(IF Contains(line, "\"") THEN Field1(line, "\"")
                            ELSE Field1(line, ":"), Unknown) >>
                 \o parse_iwlist_output(lines, i + 1)
            ELSE parse_iwlist_output(lines, i + 1)

\* _parse_netsh_output (Windows)
RECURSIVE parse_netsh_output(_, _)
parse_netsh_output(lines, i) ==
    IF i > Len(lines) THEN <<>>
    ELSE LET line == lines[i]
         IN IF Contains(line, "Gateway_")
            THEN << Network(IF Contains(line, ":") THEN Strip(Field1(line, ":"))
                            ELSE Strip(line), Unknown) >>
                 \o parse_netsh_output(lines, i + 1)
            ELSE parse_netsh_output(lines, i + 1)

\* the networks scan_gateway_networks makes of the command's output
scan_gateway_networks(sys, lines) ==
    CASE sys = "Darwin" -> DarwinFrom(lines, 1, FALSE, NoNetwork, <<>>)
      [] sys = "Linux"  -> parse_iwlist_output(lines, 1)
      [] OTHER          -> parse_netsh_output(lines, 1)

Systems == {"Darwin", "Linux", "Windows"}

\* lines the scan command of each platform may print
Lines(sys) ==
    CASE sys = "Darwin" ->
           { <<" ", "Other Local Wi-Fi Networks", ":">>,
             <<" ", "Gateway_", "AA", ":">>,
             <<" ", "My", "Gateway_", "BB", ":">>,
             <<" ", "HomeNet", ":">>,
             <<" ", "Security", ":", " ", "None">>,
             <<" ", "Security", ":", " ", "WPA2 Personal">>,
             <<" ", "Channel", ":", " ", "6">> }
      [] sys = "Linux" ->
           { <<" ", "ESSID", ":", "\"", "Gateway_", "AA", "\"">>,
             <<" ", "ESSID", ":", "\"", "My", "Gateway_", "BB", "\"">>,
             <<" ", "ESSID", ":", "\"", "HomeNet", "\"">>,
             <<" ", "ESSID", ":", "Gateway_", "CC">>,
             <<" ", "Quality", "=", "70">> }
      [] OTHER ->
           { <<" ", "All User Profile", " ", ":", " ", "Gateway_", "AA">>,
             <<" ", "All User Profile", " ", ":", " ", "My", "Gateway_", "BB">>,
             <<" ", "All User Profile", " ", ":", " ", "HomeNet">>,
             <<" ", "Gateway_", "CC", " ">> }

\* the outputs of at most n lines
RECURSIVE Outputs(_, _)
Outputs(sys, n) ==
    IF n = 0 THEN {<<>>}
    ELSE Outputs(sys, n - 1) \cup
         { Append(o, l) : o \in { x \in Outputs(sys, n - 1) : Len(x) = n - 1 },
                          l \in Lines(sys) }

\* a scan is about to run on some platform
ScanInit ==
    /\ runPc = "scan"
    /\ system \in Systems
    /\ stdout = <<>>
    /\ networks = <<>>
    /\ selection = NoLine
    /\ selected_gateways = <<>>
    /\ config = PyNone
    /\ NoWorkflow
    /\ NewBot
    /\ NoFleet
    /\ NoLookup

workflow == << inputs, attempt, pc, currentStep, action, invalid, result, session,
               device_password, executions, lowestInvoked, completed, ui >>

\* the platform's command ran and its output was parsed
ScanReturns ==
    /\ runPc = "scan"
    /\ \E out \in Outputs(system, MaxLines) :
         /\ stdout' = out
         /\ networks' = scan_gateway_networks(system, out)
    /\ runPc' = "scanned"
    /\ UNCHANGED << workflow, system, selection, selected_gateways, fleet, aside >>

\* `except Exception`: the command could not be run; the scan returns []
ScanRaises ==
    /\ runPc = "scan"
    /\ networks' = <<>>
    /\ runPc' = "scanned"
    /\ UNCHANGED << workflow, system, stdout, selection, selected_gateways, fleet, aside >>

ScanNext ==
    \/ ScanReturns
    \/ ScanRaises

ScanSpec == ScanInit /\ [][ScanNext]_vars

(***************************************************************************)
(* select_gateways: the operator picks the networks to configure.          *)
(***************************************************************************)
Digits == <<"0", "1", "2", "3", "4", "5", "6", "7", "8", "9">>
IsDigit(c) == \E d \in 1..Len(Digits) : Digits[d] = c
DigitValue(c) == (CHOOSE d \in 1..Len(Digits) : Digits[d] = c) - 1

\* the number a text of digits denotes
RECURSIVE Number(_)
Number(digits) ==
    IF digits = <<>> THEN 0
    ELSE 10 * Number(SubSeq(digits, 1, Len(digits) - 1)) + DigitValue(digits[Len(digits)])

\* int(text): white space around it is dropped, a sign may lead, digits must
\* follow; anything else is a ValueError (ok is FALSE)
PyInt(text) ==
    LET t == Strip(text)
        signed == t # <<>> /\ t[1] \in {"-", "+"}
        digits == IF signed THEN Tail(t) ELSE t
    IN IF digits = <<>> \/ \E i \in 1..Len(digits) : ~IsDigit(digits[i])
       THEN [ok |-> FALSE, n |-> 0]
       ELSE [ok |-> TRUE,
             n |-> IF signed /\ t[1] = "-" THEN 0 - Number(digits) ELSE Number(digits)]

\* a line typed at the prompt, after strip().lower(): "all", "allnone", the
\* empty line ("blank"), or any other text as the parts between its commas
Line(kw, toks) == [kw |-> kw, toks |-> toks]

\* [network['ssid'] for network in networks if network['security'] == 'None']
RECURSIVE none_networks(_, _)
none_networks(nets, i) ==
    IF i > Len(nets) THEN <<>>
    ELSE (IF nets[i].security = <<"None">> THEN << nets[i].ssid >> ELSE <<>>)
         \o none_networks(nets, i + 1)

\* SelectLine, were the indices in range picked out of an invalid entry
SelectLine_KeepsValidIndices(nets, line) ==
    LET indices == [k \in 1..Len(line.toks) |-> PyInt(line.toks[k])]
        valid == SelectSeq(indices, LAMBDA x : x.ok /\ 1 <= x.n /\ x.n <= Len(nets))
    IN CASE line.kw = "all" ->
              [returned |-> TRUE, ssids |-> [k \in 1..Len(nets) |-> nets[k].ssid]]
         [] line.kw = "allnone" ->
              [returned |-> none_networks(nets, 1) # <<>>, ssids |-> none_networks(nets, 1)]
         [] line.kw = "blank" ->
              [returned |-> FALSE, ssids |-> <<>>]
         [] OTHER ->
              [returned |-> valid # <<>>,
               ssids |-> [k \in 1..Len(valid) |-> nets[valid[k].n].ssid]]

\* SelectLine, were "allnone" to return whatever it finds, and every network
\* when none is open
SelectLine_AllNoneReturnsAll(nets, line) ==
    LET indices == [k \in 1..Len(line.toks) |-> PyInt(line.toks[k])]
    IN CASE line.kw = "all" ->
              [returned |-> TRUE, ssids |-> [k \in 1..Len(nets) |-> nets[k].ssid]]
         [] line.kw = "allnone" ->
              [returned |-> TRUE,
               ssids |-> IF none_networks(nets, 1) # <<>> THEN none_networks(nets, 1)
                         ELSE [k \in 1..Len(nets) |-> nets[k].ssid]]
         [] line.kw = "blank" ->
              [returned |-> FALSE, ssids |-> <<>>]
         [] \E k \in 1..Len(indices) : ~indices[k].ok ->
              [returned |-> FALSE, ssids |-> <<>>]
         [] OTHER ->
              IF \A k \in 1..Len(indices) : 1 <= indices[k].n /\ indices[k].n <= Len(nets)
              THEN [returned |-> TRUE,
                    ssids |-> [k \in 1..Len(indices) |-> nets[indices[k].n].ssid]]
              ELSE [returned |-> FALSE, ssids |-> <<>>]

\* one turn of the `while True` loop on the line typed: whether it returns,
\* and the ssids returned
SelectLine(nets, line) ==
    LET indices == [k \in 1..Len(line.toks) |-> PyInt(line.toks[k])]
    IN CASE line.kw = "all" ->
              [returned |-> TRUE, ssids |-> [k \in 1..Len(nets) |-> nets[k].ssid]]
         [] line.kw = "allnone" ->
              [returned |-> none_networks(nets, 1) # <<>>, ssids |-> none_networks(nets, 1)]
         [] line.kw = "blank" ->
              [returned |-> FALSE, ssids |-> <<>>]
         [] \E k \in 1..Len(indices) : ~indices[k].ok ->
              [returned |-> FALSE, ssids |-> <<>>]
         [] OTHER ->
              IF \A k \in 1..Len(indices) : 1 <= indices[k].n /\ indices[k].n <= Len(nets)
              THEN [returned |-> TRUE,
                    ssids |-> [k \in 1..Len(indices) |-> nets[indices[k].n].ssid]]
              ELSE [returned |-> FALSE, ssids |-> <<>>]

\* the ssids of the networks found, by position in the scan
Ssids == << <<"Gateway_", "AA">>, <<"Gateway_", "BB">>, <<"Gateway_", "CC">>,
            <<"Gateway_", "DD">>, <<"Gateway_", "EE">> >>
Securities == { <<"None">>, <<"WPA2 Personal">> }

\* the scan results of exactly n networks, and of at most n
NetworksOf(n) ==
    { [i \in 1..n |-> Network(Ssids[i], sec[i])] : sec \in [1..n -> Securities] }
NetworkLists(n) == UNION { NetworksOf(k) : k \in 0..n }

\* parts between commas the operator may type
Parts == { <<"1">>, <<" ", "2">>, <<"3">>, <<"0">>, <<"a">>, <<>>, <<"1", "0">> }

RECURSIVE PartLists(_)
PartLists(n) ==
    IF n = 0 THEN {<<>>}
    ELSE PartLists(n - 1) \cup
         { Append(l, p) : l \in { x \in PartLists(n - 1) : Len(x) = n - 1 }, p \in Parts }

\* the lines the operator may type
Selections ==
    { Line(kw, <<>>) : kw \in {"all", "allnone", "blank"} } \cup
    { Line("text", toks) : toks \in PartLists(MaxParts) \ {<<>>} }

\* select_gateways is called with some scan result
SelectInit ==
    /\ runPc = "select"
    /\ networks \in NetworkLists(MaxNetworks)
    /\ system = ""
    /\ stdout = <<>>
    /\ selection = NoLine
    /\ selected_gateways = <<>>
    /\ config = PyNone
    /\ NoWorkflow
    /\ NewBot
    /\ NoFleet
    /\ NoLookup

\* `if not networks: return []`, else the list is printed and the loop entered
SelectEnter ==
    /\ runPc = "select"
    /\ runPc' = IF networks = <<>> THEN "selected" ELSE "prompt"
    /\ UNCHANGED << workflow, system, stdout, networks, selection, selected_gateways,
                    fleet, aside >>

\* one turn of the loop: a line is read, and the selection returned or the
\* operator asked again
SelectPrompt ==
    /\ runPc = "prompt"
    /\ \E line \in Selections :
         LET r == SelectLine(networks, line)
         IN /\ selection' = line
            /\ IF r.returned
               THEN /\ runPc' = "selected"
                    /\ selected_gateways' = r.ssids
               ELSE UNCHANGED << runPc, selected_gateways >>
    /\ UNCHANGED << workflow, system, stdout, networks, fleet, aside >>

\* input() raises (end of input, an interrupt): only ValueError and
\* IndexError are caught, so the error leaves select_gateways
SelectInputRaises ==
    /\ runPc = "prompt"
    /\ runPc' = "raised"
    /\ UNCHANGED << workflow, system, stdout, networks, selection, selected_gateways,
                    fleet, aside >>

SelectNext ==
    \/ SelectEnter
    \/ SelectPrompt
    \/ SelectInputRaises

SelectSpec == SelectInit /\ [][SelectNext]_vars

(***************************************************************************)
(* A call of ConfigLoader.get on a loaded document.                        *)
(***************************************************************************)
\* documents a config.yaml may load as: those of ConfigDocs, a mapping with
\* a deeper level, an empty mapping, and documents of the wrong shape
LoadedDocs ==
    ConfigDocs \cup
    { PyDict([s \in {"wifi"} |->
         PyDict([k \in {"password"} |-> PyDict([x \in {"x"} |-> PyStr("deep")])])]),
      PyDict([s \in {} |-> PyNone]),
      PyDict([s \in {"credentials"} |-> PyStr("flat")]),
      PyDict([s \in {"credentials"} |-> PyNone]),
      PyStr("text") }

\* key paths get may be called with
KeyPaths ==
    { K_new_password, K_default_password, K_wifi_password,
      <<"credentials">>,
      <<"wifi", ".", "password", ".", "x">>,
      <<"missing">>,
      <<"credentials", ".">>,
      <<>> }

Defaults == { PyNone, PyStr("dflt") }

\* a ConfigLoader holds a loaded document
GetInit ==
    /\ runPc = "get"
    /\ config \in LoadedDocs
    /\ NoLookup
    /\ NoScan
    /\ NoFleet
    /\ NoWorkflow
    /\ NewBot

\* self.config.get(key_path, default)
ConfigLoader_get ==
    /\ runPc = "get"
    /\ \E k \in KeyPaths, d \in Defaults :
         /\ key_path' = k
         /\ default' = d
         /\ value' = Get(config, k, d)
    /\ UNCHANGED << workflow, runPc, system, stdout, networks, selection,
                    selected_gateways, fleet, cellular_elements >>

GetNext == ConfigLoader_get

GetSpec == GetInit /\ [][GetNext]_vars

(***************************************************************************)
(* main.run_bot: the fleet loop over the selected gateways.  Each gateway  *)
(* is configured by the workflow above, on the one bot of the run.         *)
(***************************************************************************)
\* the default of configure_single_gateway's max_retries, which run_bot uses
DefaultMaxRetries == 2

\* the selections the loop may be given: the first n networks found
Fleets == { SubSeq(Ssids, 1, n) : n \in 1..MaxGateways }

\* the --start-from options of a fleet run
FleetStarts == {1, 4}

\* the documents the bot of a fleet run may have loaded
FleetDocs == { Doc(PyStr("s3cret"), PyStr("w1f1")), Doc(Absent, PyStr("w1f1")) }

\* what the operator may answer, after lower()
Answers == {"y", "yes", "n", ""}

\* run_bot has a bot and a selection, and is about to enter the loop
FleetInit ==
    /\ runPc = "loop"
    /\ selected_gateways \in Fleets
    /\ start_from_step \in FleetStarts
    /\ interactive_mode \in BOOLEAN
    /\ config \in FleetDocs
    /\ headless = FALSE
    /\ max_retries = DefaultMaxRetries
    /\ attempt = 0
    /\ pc = "none"
    /\ currentStep = 0
    /\ action = NoAction
    /\ invalid = 0
    /\ result = "none"
    /\ device_password = FactoryPassword
    /\ lowestInvoked = NoneInvoked
    /\ completed = {}
    /\ ui = NoCalls
    /\ NewBot
    /\ NoFleet
    /\ NoLookup
    /\ system = ""
    /\ stdout = <<>>
    /\ networks = <<>>
    /\ selection = NoLine

\* ForGateway, were the loop to go on while a workflow is still running
ForGateway_Overlaps ==
    /\ runPc \in {"loop", "workflow"}
    /\ gateway < Len(selected_gateways)
    /\ gateway' = gateway + 1
    /\ runPc' = "workflow"
    /\ attempt' = 0
    /\ pc' = "for"
    /\ currentStep' = 0
    /\ action' = NoAction
    /\ invalid' = 0
    /\ result' = "running"
    /\ lowestInvoked' = NoneInvoked
    /\ completed' = {}
    /\ ui' = NoCalls
    /\ executions' = 0
    /\ device_password' = FactoryPassword
    /\ continue_choice' = ""
    /\ UNCHANGED << closeRaised, hidden, inputs, browser, page, live, playwrights, system, stdout, networks, selection,
                    selected_gateways, success_count, outcomes,
                    tally, aside >>

\* `for i, ssid in enumerate(selected_gateways, 1)`: the next gateway's
\* workflow is called, or the loop is over
ForGateway ==
    /\ runPc = "loop"
    /\ IF gateway < Len(selected_gateways)
       THEN /\ gateway' = gateway + 1
            /\ runPc' = "workflow"
            /\ attempt' = 0
            /\ pc' = "for"
            /\ currentStep' = 0
            /\ action' = NoAction
            /\ invalid' = 0
            /\ result' = "running"
            /\ lowestInvoked' = NoneInvoked
            /\ completed' = {}
            /\ ui' = NoCalls
            /\ executions' = 0
            /\ device_password' = FactoryPassword
            /\ continue_choice' = ""
       ELSE /\ runPc' = "summary"
            /\ UNCHANGED << gateway, attempt, pc, currentStep, action, invalid, result,
                            lowestInvoked, completed, ui, executions,
                            device_password, continue_choice >>
    /\ UNCHANGED << closeRaised, hidden, inputs, browser, page, live, playwrights, system, stdout, networks, selection,
                    selected_gateways, success_count, outcomes,
                    tally, aside >>

\* WorkflowReturned, were every returned workflow counted a success
WorkflowReturned_CountsFailures ==
    /\ runPc = "workflow"
    /\ pc = "done"
    /\ outcomes' = Append(outcomes, result)
    /\ CASE result = "True" ->
              /\ success_count' = success_count + 1
              /\ runPc' = "loop"
         [] result = "False" ->
              /\ success_count' = success_count + 1
              /\ runPc' = "ask"
         [] OTHER ->
              /\ runPc' = "raised"
              /\ UNCHANGED success_count
    /\ pc' = "none"
    /\ result' = "none"
    /\ attempt' = 0
    /\ currentStep' = 0
    /\ action' = NoAction
    /\ invalid' = 0
    /\ lowestInvoked' = NoneInvoked
    /\ completed' = {}
    /\ ui' = NoCalls
    /\ device_password' = FactoryPassword
    /\ UNCHANGED << inputs, session, executions, system, stdout, networks, selection, selected_gateways,
                    gateway, continue_choice, tally, aside >>

\* `if await bot.configure_single_gateway(...)`: True is counted, False
\* leads to the question, and an error raised by the workflow leaves run_bot
WorkflowReturned ==
    /\ runPc = "workflow"
    /\ pc = "done"
    /\ outcomes' = Append(outcomes, result)
    /\ CASE result = "True" ->
              /\ success_count' = success_count + 1
              /\ runPc' = "loop"
         [] result = "False" ->
              /\ runPc' = "ask"
              /\ UNCHANGED success_count
         [] OTHER ->
              /\ runPc' = "raised"
              /\ UNCHANGED success_count
    /\ pc' = "none"
    /\ result' = "none"
    /\ attempt' = 0
    /\ currentStep' = 0
    /\ action' = NoAction
    /\ invalid' = 0
    /\ lowestInvoked' = NoneInvoked
    /\ completed' = {}
    /\ ui' = NoCalls
    /\ device_password' = FactoryPassword
    /\ UNCHANGED << inputs, session, executions, system, stdout, networks, selection, selected_gateways,
                    gateway, continue_choice, tally, aside >>

\* "Continue with remaining gateways? (y/n)": anything but y or yes breaks
\* out of the loop
Ask ==
    /\ runPc = "ask"
    /\ \E answer \in Answers :
         /\ continue_choice' = answer
         /\ runPc' = IF answer \in {"y", "yes"} THEN "loop" ELSE "summary"
    /\ UNCHANGED << workflow, system, stdout, networks, selection, selected_gateways,
                    gateway, success_count, outcomes, tally, aside >>

\* input() raises at the question (end of input, an interrupt): nothing
\* catches it and the error leaves run_bot
AskRaises ==
    /\ runPc = "ask"
    /\ runPc' = "raised"
    /\ UNCHANGED << workflow, system, stdout, networks, selection, selected_gateways,
                    fleet, aside >>

\* the summary printed after the loop: success_count/len(selected_gateways)
Summary ==
    /\ runPc = "summary"
    /\ tally' = [succeeded |-> success_count, total |-> Len(selected_gateways),
                 printed |-> TRUE]
    /\ runPc' = "done"
    /\ UNCHANGED << workflow, system, stdout, networks, selection, selected_gateways,
                    gateway, success_count, continue_choice, outcomes, aside >>

FleetNext ==
    \/ ForGateway
    \/ BeginAttempt
    \/ InitializeBrowser
    \/ CheckNewPassword
    \/ Pause
    \/ Acknowledge
    \/ Quit
    \/ Skip
    \/ StepSucceeds
    \/ StepFails
    \/ Finish
    \/ ExceptionRaised
    \/ KeyboardInterrupt
    \/ Cancelled
    \/ WorkflowReturned
    \/ Ask
    \/ AskRaises
    \/ Summary

FleetSpec == FleetInit /\ [][FleetNext]_vars

(***************************************************************************)
(* main: the workflow of one selected gateway as run_bot calls it, with    *)
(* the flags of the command line.                                          *)
(***************************************************************************)
\* `bot.configure_single_gateway(ssid, start_from_step=start_from)` on the
\* bot made with `GatewayConfigBot(interactive_mode=interactive)`
MainInit ==
    /\ headless \in BOOLEAN
    /\ interactive_mode \in BOOLEAN
    /\ start_from_step \in Steps
    /\ max_retries = DefaultMaxRetries
    /\ config \in ConfigDocs
    /\ attempt = 0
    /\ pc = "for"
    /\ currentStep = 0
    /\ action = NoAction
    /\ invalid = 0
    /\ result = "running"
    /\ device_password = FactoryPassword
    /\ lowestInvoked = NoneInvoked
    /\ completed = {}
    /\ ui = NoCalls
    /\ NewBot
    /\ runPc = "workflow"
    /\ NoScan
    /\ NoFleet
    /\ NoLookup

MainSpec == MainInit /\ [][Next]_vars

(***************************************************************************)
(* The workflow with pausing disabled and every call it awaits returning:  *)
(* no prompt is shown and nothing raises, so the coroutine runs on from    *)
(* one statement to the next until it returns.                             *)
(***************************************************************************)
\* configure_single_gateway on a new bot made without interactive mode
ReturningInit ==
    /\ Init
    /\ ~interactive_mode

ReturningNext ==
    \/ BeginAttempt
    \/ InitializeBrowser
    \/ CheckNewPassword
    \/ Pause
    \/ StepSucceeds
    \/ StepFails
    \/ Finish

ReturningSpec == ReturningInit /\ [][ReturningNext]_vars /\ WF_vars(ReturningNext)

(***************************************************************************)
(* A call of configure_network on a page with given option nodes.          *)
(***************************************************************************)
\* the bot stands at step 6 with a page open, or with none
NetworkInit ==
    /\ runPc = "network"
    /\ cellular_elements \in ElemLists(MaxElems)
    /\ \E h \in {NoHandle, 1} :
         /\ browser = h
         /\ page = h
         /\ live = {h} \ {NoHandle}
         /\ playwrights = h
    /\ closeRaised = FALSE
    /\ hidden = {}
    /\ executions = 0
    /\ config = PyNone
    /\ NoWorkflow
    /\ NoScan
    /\ NoFleet
    /\ key_path = <<>>
    /\ default = PyNone
    /\ value = NotCalled

\* await self.configure_network()
ConfigureNetwork ==
    /\ runPc = "network"
    /\ \E run \in RunsOf(configure_network(cellular_elements)) :
         /\ ui' = Calls(6, run.ui)
         /\ result' = IF run.ret THEN "True" ELSE "False"
    /\ runPc' = "configured"
    /\ UNCHANGED << inputs, device_password, attempt, pc, currentStep, action, invalid, session,
                    executions, lowestInvoked, completed, system, stdout, networks,
                    selection, selected_gateways, fleet, aside >>

NetworkNext == ConfigureNetwork

NetworkSpec == NetworkInit /\ [][NetworkNext]_vars

(***************************************************************************)
(* Properties of the workflow.                                             *)
(***************************************************************************)
\* the secrets as the workflow reads them from the configuration
new_password_configured == Truthy(Get(config, K_new_password, PyNone))
wifi_password_configured == Truthy(Get(config, K_wifi_password, PyNone))

\* the workflow returned False because step 4 found no new password
StoppedByMissingPassword ==
    pc = "done" /\ result = "False" /\ currentStep = 4 /\ ~new_password_configured

\* C1: with pausing disabled, the workflow never begins more than
\* max_retries + 1 attempt executions, and when it returns False after
\* executions that all failed (at a step action or at opening the session,
\* not at the missing-secret stop of step 4) it has begun exactly
\* max_retries + 1 of them.
C1_ExactlyNPlusOneExecutions ==
    ~interactive_mode =>
        /\ executions <= max_retries + 1
        /\ (pc = "done" /\ result = "False" /\ ~StoppedByMissingPassword)
              => executions = max_retries + 1

\* C1 witness: step 2 failed in every execution with a budget of 2 retries
C1_Witness ==
    /\ ~interactive_mode
    /\ max_retries = 2
    /\ pc = "done" /\ result = "False"
    /\ ui.step = 2 /\ ui.calls # <<>>
    /\ executions = 3

\* C2: a failed step action with a retry left leads back to the head of the
\* loop; the attempt begun there stands at start_from_step with no step
\* completed, whatever step failed; and a step's action is only reached with
\* exactly the steps start_from_step..currentStep-1 completed in the attempt,
\* so the first action of a retried attempt is that of start_from_step.
C2_RetryRestartsAtStartStep ==
    /\ [][ (pc = "dispatch" /\ action = "continue" /\ attempt' # attempt)
             => (pc' = "for" /\ attempt' = attempt + 1) ]_vars
    /\ [][ (pc = "for" /\ pc' # "done")
             => (currentStep' = start_from_step /\ completed' = {}) ]_vars
    /\ [](pc \in {"init", "check", "pause", "ack", "dispatch"}
             => /\ currentStep >= start_from_step
                /\ completed = start_from_step..(currentStep - 1))

\* C2 witness: step 5 failed in an attempt begun at step 2, and the retried
\* attempt stands at step 2 again
C2_Witness ==
    /\ attempt > 0
    /\ start_from_step = 2
    /\ ui.step = 5
    /\ pc = "init" /\ currentStep = 2

\* C3: whenever the action of step 7 has made a UI call, wifi.password is
\* configured.
C3_Step7NeedsWifiPassword ==
    (ui.step = 7 /\ ui.calls # <<>>) => wifi_password_configured

\* C4: whenever the action of step 4 has made a UI call, and already when the
\* operator is asked about step 4, credentials.new_password is configured.
C4_Step4NeedsNewPassword ==
    /\ (ui.step = 4 /\ ui.calls # <<>>) => new_password_configured
    /\ (currentStep = 4 /\ pc \in {"pause", "ack", "dispatch"}) => new_password_configured

\* C4 witness: an interactive workflow started at step 1 reached step 4
\* without the secret and stopped there
C4_Witness ==
    /\ interactive_mode
    /\ start_from_step = 1
    /\ StoppedByMissingPassword

\* C5: a workflow standing at step 4 or at step 7 without the secret that
\* step requires is testing for the secret or has returned False.
C5_MissingSecretStopsAtOnce ==
    /\ (currentStep = 4 /\ ~new_password_configured)
          => (pc = "check" \/ (pc = "done" /\ result = "False"))
    /\ (currentStep = 7 /\ ~wifi_password_configured)
          => (pc = "check" \/ (pc = "done" /\ result = "False"))

\* what a quit does besides the teardown: the workflow returns False with no
\* retry, no new attempt and no step action
QuitEndsWorkflow ==
    /\ pc' = "done" /\ result' = "False"
    /\ attempt' = attempt /\ executions' = executions
    /\ ui' = ui /\ lowestInvoked' = lowestInvoked

C7_SkipOpensNoSession ==
    (pc = "dispatch" /\ action \in {"skip", "manual_done"} /\ currentStep = 2)
        => browser # executions

\* C7 amended: a skip or manual_done disposition (interactive mode only) runs
\* no step action: no network join and no UI call is made, the session is
\* left as it is, and the workflow moves on to step currentStep + 1 (after
\* step 7: to the final close); manual_done is only returned once the operator
\* has acknowledged.  The session of step 2 is opened before the operator is
\* asked, whatever the disposition.
C7_SkipInvokesNoAction ==
    /\ [][ (pc = "dispatch" /\ action \in {"skip", "manual_done"})
             => /\ interactive_mode
                /\ ui' = ui /\ ui = NoCalls
                /\ lowestInvoked' = lowestInvoked
                /\ UNCHANGED << session, attempt, executions, result >>
                /\ IF currentStep = 7 THEN pc' = "close"
                   ELSE currentStep' = currentStep + 1
                /\ completed' = completed \cup {currentStep} ]_vars
    /\ [][ (action' = "manual_done" /\ action # "manual_done")
             => (pc = "ack" /\ pc' = "dispatch") ]_vars
    /\ [][ pc' = "ack" => (pc = "pause" /\ interactive_mode /\ action' # "manual_done") ]_vars
    /\ [][ (pc = "init" /\ pc' = "pause")
             => (browser' \notin live /\ browser' \in live' /\ page' = browser') ]_vars
    /\ []((pc \in {"pause", "ack", "dispatch"} /\ currentStep = 2)
            => (browser # NoHandle /\ browser \in live /\ page = browser))

\* C7 witness: the operator did step 1 by hand and the workflow moved on to
\* open the session, no network join having been invoked
C7_Witness ==
    /\ interactive_mode
    /\ pc = "init"
    /\ completed = {1}
    /\ lowestInvoked = NoneInvoked
    /\ attempt = 0

\* C8: whenever the workflow has returned, has raised, or stands at the head
\* of the loop for a retry, no browser and no playwright driver started by
\* initialize_browser is still open.
C8_NothingLeftOpen ==
    pc \in {"for", "done"} => (live = {} /\ playwrights = 0)

\* C9: no action of a step below start_from_step is ever invoked, in any
\* attempt: the workflow never stands in such a step, no UI call belongs to
\* one, a start after step 2 opens no session; and with start_from_step = 4,
\* pausing disabled and no new password, the workflow returns False in its
\* first attempt with no step action invoked at all.
C9_NoActionBelowStartStep ==
    /\ lowestInvoked >= start_from_step
    /\ (currentStep # 0 => currentStep >= start_from_step)
    /\ (ui.step # 0 => ui.step >= start_from_step)
    /\ (start_from_step > 2 => (playwrights = 0 /\ live = {} /\ browser = NoHandle))
    /\ (start_from_step = 4 /\ ~interactive_mode /\ ~new_password_configured /\ pc = "done")
          => (result = "False" /\ lowestInvoked = NoneInvoked /\ executions = 1 /\ ui = NoCalls)

\* C9 witness: started at step 4 without pausing and without a new password,
\* the workflow has returned False
C9_Witness ==
    /\ start_from_step = 4
    /\ ~interactive_mode
    /\ ~new_password_configured
    /\ max_retries = 2
    /\ pc = "done" /\ result = "False"

C11_ErrorsContainedInterruptAfterTeardown ==
    pc = "done" =>
        /\ result \in {"True", "False", "KeyboardInterrupt"}
        /\ result = "KeyboardInterrupt"
              => (browser = NoHandle /\ page = NoHandle /\ live = {})

\* C12: the new password and its confirmation that step 4 fills in are the
\* configured credentials.new_password.
C12_Step4SubmitsConfiguredPassword ==
    (ui.step = 4 /\ new_password_configured) =>
        \A k \in DOMAIN ui.calls :
            (ui.calls[k].op = "fill" /\ ui.calls[k].sel \in {"#new_pwd", "#check_pwd"})
                => ui.calls[k].val = Text(Get(config, K_new_password, PyNone))

\* C13: the WiFi password that step 7 fills in is the configured wifi.password.
C13_Step7SubmitsConfiguredPassword ==
    (ui.step = 7 /\ wifi_password_configured) =>
        \A k \in DOMAIN ui.calls :
            (ui.calls[k].op = "fill" /\ ui.calls[k].sel = "#ap_pwd")
                => ui.calls[k].val = Text(Get(config, K_wifi_password, PyNone))


\* C20: every network the scan returns has an ssid that starts with "Gateway_".
C20_ScanReturnsPrefixedNetworks ==
    runPc = "scanned" =>
        \A i \in 1..Len(networks) : StartsWith(networks[i].ssid, "Gateway_")


(***************************************************************************)
(* Properties of select_gateways.                                          *)
(***************************************************************************)
\* the ssids of the networks whose security label is "None", in scan order
OpenSsids ==
    LET open == SelectSeq(networks, LAMBDA n : n.security = <<"None">>)
    IN [k \in 1..Len(open) |-> open[k].ssid]

\* a line was read at the prompt in this step
LineRead == runPc = "prompt" /\ runPc' # "raised"

\* C14: on "allnone", select_gateways returns the ssids of the open networks
\* in scan order, also when there is none.
C14_AllNoneReturnsOpenSubset ==
    [][ (LineRead /\ selection'.kw = "allnone")
          => (runPc' = "selected" /\ selected_gateways' = OpenSsids) ]_vars

\* C14 amended: on "allnone", select_gateways returns the ssids of the open
\* networks in scan order when at least one network is open; when none is,
\* nothing is returned and the operator is asked again.
C14_AllNoneReturnsOpenOrAsksAgain ==
    [][ (LineRead /\ selection'.kw = "allnone")
          => IF OpenSsids # <<>>
             THEN runPc' = "selected" /\ selected_gateways' = OpenSsids
             ELSE runPc' = "prompt" /\ UNCHANGED selected_gateways ]_vars

\* C14 witness: of Gateway_AA (open) and Gateway_BB (secured), "allnone"
\* returned Gateway_AA alone
C14_Witness ==
    /\ runPc = "selected"
    /\ selection.kw = "allnone"
    /\ Len(networks) = 2
    /\ networks[1].security = <<"None">>
    /\ networks[2].security = <<"WPA2 Personal">>
    /\ selected_gateways = << <<"Gateway_", "AA">> >>

\* the entry is no keyword and one of its parts is no integer or lies
\* outside 1..count
InvalidEntry(line) ==
    /\ line.kw = "text"
    /\ \E k \in 1..Len(line.toks) :
         \/ ~PyInt(line.toks[k]).ok
         \/ PyInt(line.toks[k]).n < 1
         \/ PyInt(line.toks[k]).n > Len(networks)

\* C15: an invalid entry selects nothing and the operator is asked again;
\* select_gateways raises only when no line could be read; and a selection
\* returned for entered indices is the ssids at those indices, all of them
\* within 1..count.
C15_InvalidSelectionAsksAgain ==
    /\ [][ (LineRead /\ InvalidEntry(selection'))
             => (runPc' = "prompt" /\ UNCHANGED selected_gateways) ]_vars
    /\ [][ runPc' = "raised" => UNCHANGED selection ]_vars
    /\ [](runPc = "selected" /\ selection.kw = "text"
            => /\ ~InvalidEntry(selection)
               /\ selected_gateways =
                    [k \in 1..Len(selection.toks) |->
                        networks[PyInt(selection.toks[k]).n].ssid])

\* C15 witness: with two networks, "1,3" selected nothing and the prompt is
\* open again
C15_Witness ==
    /\ runPc = "prompt"
    /\ Len(networks) = 2
    /\ selection = Line("text", << <<"1">>, <<"3">> >>)
    /\ selected_gateways = <<>>


(***************************************************************************)
(* Properties of ConfigLoader.get.                                         *)
(***************************************************************************)
\* the value reached by following the first n segments, when they resolve
RECURSIVE Reached(_, _, _)
Reached(doc, segs, n) ==
    IF n = 0 THEN doc ELSE Reached(doc, segs, n - 1).v[segs[n]]

\* each of the first n segments names a key of the mapping reached before it
RECURSIVE Resolves(_, _, _)
Resolves(doc, segs, n) ==
    \/ n = 0
    \/ /\ Resolves(doc, segs, n - 1)
       /\ Reached(doc, segs, n - 1).t = "dict"
       /\ segs[n] \in DOMAIN Reached(doc, segs, n - 1).v

\* C19: get returns the value reached through the nested mappings when
\* every segment of the dotted key resolves, and default otherwise (a
\* segment is missing, a value on the way is no mapping, the document is
\* empty); it never changes the configuration.
C19_GetResolvesOrDefaults ==
    /\ [](value # NotCalled
            => LET segs == Split(key_path)
               IN value = IF Resolves(config, segs, Len(segs))
                          THEN Reached(config, segs, Len(segs))
                          ELSE default)
    /\ [][UNCHANGED config]_vars

\* C19 witness: credentials is a string, not a mapping, and
\* get('credentials.new_password', "dflt") returned "dflt"
C19_Witness ==
    /\ config = PyDict([s \in {"credentials"} |-> PyStr("flat")])
    /\ key_path = K_new_password
    /\ default = PyStr("dflt")
    /\ value = PyStr("dflt")


(***************************************************************************)
(* Properties of the fleet loop.                                           *)
(***************************************************************************)
\* the loop goes through the selection in order, one workflow at a time:
\* a workflow is called from the head of the loop with none running, and
\* workflow steps are taken only inside a call
InSelectionOrder ==
    /\ [][ gateway' # gateway
             => /\ gateway' = gateway + 1
                /\ runPc = "loop" /\ runPc' = "workflow"
                /\ pc = "none" /\ pc' = "for" ]_vars
    /\ [](pc \notin {"none", "done"} => runPc = "workflow")
    /\ [][ (runPc = "workflow" /\ runPc' # "workflow") => pc = "done" ]_vars

\* after False the operator is asked; any answer but y or yes ends the loop
\* for good, and y or yes leads to the next gateway if one is left
AskedAfterFailure ==
    /\ [][ (runPc = "workflow" /\ runPc' # "workflow" /\ result = "False")
             => runPc' = "ask" ]_vars
    /\ [][ (runPc = "ask" /\ runPc' # "raised")
             => IF continue_choice' \in {"y", "yes"}
                THEN runPc' = "loop" ELSE runPc' = "summary" ]_vars
    /\ [][ (runPc \in {"summary", "done", "raised"})
             => (runPc' \in {"summary", "done", "raised"}
                   /\ gateway' = gateway /\ pc' = pc) ]_vars
    /\ [][ (runPc = "loop" /\ gateway < Len(selected_gateways))
             => gateway' = gateway + 1 ]_vars

Succeeded == { i \in 1..Len(outcomes) : outcomes[i] = "True" }

\* C17: the tally printed shows the number of workflows that returned True
\* and the number of workflows started, the first no larger than the second.
C17_TallyCountsStarted ==
    tally.printed =>
        /\ tally.succeeded = Cardinality(Succeeded)
        /\ tally.total = gateway
        /\ tally.succeeded <= tally.total

\* C17 amended: the tally printed shows the number of workflows that
\* returned True and the number of gateways selected; gateways never started
\* after an abort are counted in that total, and succeeded <= started <= total.
C17_TallyCountsSelected ==
    tally.printed =>
        /\ tally.succeeded = Cardinality(Succeeded)
        /\ tally.total = Len(selected_gateways)
        /\ Len(outcomes) = gateway
        /\ tally.succeeded <= gateway
        /\ gateway <= tally.total

\* C17 witness: of two gateways the first failed and the operator aborted;
\* the tally shows 0 of 2
C17_Witness ==
    /\ tally.printed
    /\ Len(selected_gateways) = 2
    /\ gateway = 1
    /\ outcomes = <<"False">>
    /\ tally.succeeded = 0
    /\ tally.total = 2


(***************************************************************************)
(* Properties of step 6's option scan.                                     *)
(***************************************************************************)
\* the option node at i is visible and not the active selection
Qualifies(i) ==
    cellular_elements[i].visible /\ cellular_elements[i].selected = "false"

\* the places in ui.calls of the clicks on option nodes, and the nodes clicked
OptionClicks == { k \in 1..Len(ui.calls) : ui.calls[k].inner }
Clicked == { ui.calls[k].idx : k \in OptionClicks }

\* the first option node that qualifies; 0 if none does
FirstQualifying ==
    LET q == { i \in 1..Len(cellular_elements) : Qualifies(i) }
    IN IF q = {} THEN 0 ELSE CHOOSE i \in q : \A j \in q : i <= j

\* C18: step 6 clicks the first option that is visible and not selected, at
\* most one option, never an invisible or selected one, and fails when no
\* option qualifies.
C18_ClicksFirstQualifyingOnly ==
    runPc = "configured" =>
        /\ Cardinality(OptionClicks) <= 1
        /\ \A i \in Clicked : Qualifies(i) /\ i = FirstQualifying
        /\ result = "True" => Clicked = {FirstQualifying}
        /\ FirstQualifying = 0 => (result = "False" /\ Clicked = {})

\* C18 amended: step 6 goes through the options in order and clicks those
\* that are visible and not selected until a click does not raise: it never
\* clicks an invisible or selected option, at most one click succeeds, that
\* click is on the first qualifying option whose click does not raise and
\* every qualifying option before it was clicked in vain; the step fails when
\* no click succeeds, so when no option qualifies.
C18_ClicksQualifyingUntilOneSucceeds ==
    runPc = "configured" =>
        /\ \A i \in Clicked : Qualifies(i)
        /\ \A k, l \in OptionClicks : k < l =>
              /\ ui.calls[k].idx < ui.calls[l].idx
              /\ cellular_elements[ui.calls[k].idx].raises
        /\ \A i \in Clicked : \A j \in 1..(i - 1) : Qualifies(j) => j \in Clicked
        /\ Cardinality({ i \in Clicked : ~cellular_elements[i].raises }) <= 1
        /\ result = "True" => \E i \in Clicked : ~cellular_elements[i].raises
        /\ FirstQualifying = 0 => (result = "False" /\ Clicked = {})

\* C18 witness: of two qualifying options the click on the first raised and
\* the second was clicked; the step succeeded
C18_Witness ==
    /\ runPc = "configured"
    /\ Len(cellular_elements) = 2
    /\ Qualifies(1) /\ cellular_elements[1].raises
    /\ Qualifies(2) /\ ~cellular_elements[2].raises
    /\ Clicked = {1, 2}
    /\ result = "True"


(***************************************************************************)
(* Properties of the command line.                                         *)
(***************************************************************************)
\* C21: every browser open was launched headless if and only if --headless
\* was given.
C21_HeadlessFlagDecidesVisibility ==
    \A h \in live : (h \in hidden) <=> headless


(***************************************************************************)
(* Properties of the step order.                                           *)
(***************************************************************************)
\* C22: over the whole workflow, retries included, the current step starts
\* at start_from_step and never decreases.
C22_StepNeverDecreases ==
    /\ [][ currentStep = 0 /\ currentStep' # 0
             => currentStep' = start_from_step ]_vars
    /\ [][ currentStep' >= currentStep ]_vars

\* C22 amended: the current step starts at start_from_step and, within one
\* attempt, goes up one step at a time; every retry begins again at
\* start_from_step, so the current step decreases whenever a step after
\* start_from_step failed and the attempt is retried.
C22_StepAscendsWithinAttempt ==
    /\ [][ (pc = "for" /\ pc' # "done") => currentStep' = start_from_step ]_vars
    /\ [][ (pc # "for" /\ currentStep' # currentStep)
             => currentStep' = currentStep + 1 ]_vars

\* C22 witness: the action of a step after start_from_step failed and the
\* retry stands at start_from_step again
C22_Witness ==
    /\ attempt = 1
    /\ pc \in {"init", "pause", "check"}
    /\ currentStep = start_from_step
    /\ ui.step > currentStep
    /\ completed = {}


(***************************************************************************)
(* Properties of the session under the UI actions.                         *)
(***************************************************************************)
\* C23: whatever start_from_step is, when the workflow calls the action of a
\* step 2..7 the bot has a browser and a page of it open; no UI action is
\* called with no session.
C23_UiActionHasSession ==
    (pc = "dispatch" /\ action = "continue" /\ currentStep >= 2)
        => (browser # NoHandle /\ browser \in live /\ page = browser)


(***************************************************************************)
(* Properties of a retry after the password change.                        *)
(***************************************************************************)
\* the login of step 2 has filled in its credentials
LoginFilled == ui.step = 2 /\ Len(ui.calls) >= 4

\* C24: a retry discards the progress made.  The gateway's password changes
\* only when step 4 completes; a retry of an attempt that completed step 4
\* follows step 5, 6 or 7; every retry begins again at start_from_step with
\* nothing completed, and logs in
\* at step 2 with the credentials of the first attempt, admin and the
\* factory password, whatever password the gateway holds by then.
C24_RetryLogsInWithOriginalCredentials ==
    /\ [](LoginFilled => (ui.calls[3].val = "admin" /\ ui.calls[4].val = FactoryPassword))
    /\ [][ device_password' # device_password
             => (pc = "dispatch" /\ currentStep = 4 /\ 4 \in completed') ]_vars
    /\ [][ (pc' = "for" /\ attempt' = attempt + 1 /\ 4 \in completed)
             => currentStep \in 5..7 ]_vars
    /\ [][ (pc = "for" /\ pc' # "done")
             => (completed' = {} /\ currentStep' = start_from_step) ]_vars

\* C24 witness: step 4 has changed the gateway's password in an earlier
\* attempt, and the retry has filled the login form of step 2 with the
\* factory password, which the gateway no longer holds
C24_Witness ==
    /\ attempt >= 1
    /\ LoginFilled
    /\ ui.calls[4].sel = "#password"
    /\ ui.calls[4].val = FactoryPassword
    /\ device_password # FactoryPassword


C26_TerminatesWithinBudget ==
    /\ <>(pc = "done" /\ result \in {"True", "False"})
    /\ [](executions <= max_retries + 1)
    /\ [](pc = "done" => result \in {"True", "False"})

\* C26 witness: the workflow has returned False with the whole budget spent
C26_Witness ==
    /\ pc = "done"
    /\ result = "False"
    /\ max_retries = MaxRetries
    /\ executions = max_retries + 1

====
